---- MODULE Spec2Model ----
(***************************************************************************)
(* Camera supervision: CameraRegistry (configuration), CameraWorker (one   *)
(* capture loop per camera, on its own thread) and CameraManager (the      *)
(* control plane owning the workers and the health cache).                 *)
(*                                                                         *)
(* Time is counted in units of 10 microseconds, so that every backoff      *)
(* value the worker computes (1.5 * 1.6^n, capped at 20) is an integer.    *)
(***************************************************************************)
EXTENDS Integers, Sequences, FiniteSets, TLC

\* ------------------------------------------------------------------ bounds
\* CameraWorker instances that exist at once.
MaxWorkers == 2
\* Run-loop threads one CameraWorker can have at once.
MaxThreads == 2
\* Cap of health.dropped_total (failed reads per worker).
MaxDropped == 1
\* Cap of health.frames_total (emitted frames per worker).
MaxFrames == 2
\* Health updates, and sleeps, the harness records of one run of a loop.
MaxRecorded == 8
\* Times the capture source fails to open (SpecReconnect).
MaxOpenFails == 7
\* Times a capture source fails to open (SpecStartAll).
MaxStartFails == 2
\* Times the frame callback raises (SpecSinks).
MaxCbFails == 2

\* ------------------------------------------------------- program constants
Second == 100 * 1000
\* CameraWorker.__init__ defaults: reconnect_backoff_sec=1.5, max_backoff_sec=20.0
reconnect_backoff_sec == 150000
max_backoff_sec == 2000000
\* CameraWorker.stop(timeout=2.0), CameraManager.stop: worker.stop(timeout=2.0)
stop_timeout == 200000
\* time.time() when the program starts; _last_emit_ts starts at 0.0, far before it
Epoch == 10 * Second

CamOrder == <<"cam_1", "cam_2">>
CameraIds == {CamOrder[i] : i \in 1..Len(CamOrder)}
None == "None"
WorkerIds == 1..MaxWorkers
ThreadIds == 1..MaxThreads
CallerIds == {1, 2}

WorkerState == {"STOPPED", "STARTING", "RUNNING", "DEGRADED", "ERROR"}

VARIABLES
    registry,   \* CameraRegistry._cameras: camera id -> CameraConfig, or NoConfig for an id it does not hold
    workers,    \* CameraManager._workers: camera id -> worker, or 0 for an id it does not hold
    health,     \* CameraManager._health: camera id -> a reference to a CameraHealth object, or NoEntry
    worker,     \* the CameraWorker instances and their fields
    thread,     \* the run-loop threads of each worker: position in _run_loop and local backoff
    caller,     \* the threads calling the Manager: the call in progress and its locals
    faults,     \* the environment: how often capture-open and the frame callback may still fail,
                \* and whether the external health callback raises when it is invoked
    sink        \* the test harness: what it records of each worker's publishes, sleeps and frames

vars == <<registry, workers, health, worker, thread, caller, faults, sink>>

\* ------------------------------------------------------------ CameraRegistry

\* CameraConfig, the fields the core reads
CameraConfig(e, f) == [enabled |-> e, fps_limit |-> f]

\* what CameraRegistry.get returns for an id it does not know (None)
NoConfig == [enabled |-> FALSE, fps_limit |-> 0]

RegistryListAll(reg) == {c \in CameraIds : reg[c] # NoConfig}

\* CameraRegistry.list(include_disabled): the ids, which the callers iterate in
\* id order. RegistryListEvery is a list that ignores include_disabled, the
\* variant C7 is tested against.
RegistryListEvery(reg, include_disabled) == RegistryListAll(reg)
RegistryList(reg, include_disabled) ==
    IF include_disabled THEN RegistryListAll(reg)
    ELSE {c \in CameraIds : reg[c] # NoConfig /\ reg[c].enabled}

\* sorted(..., key=id): the first id of a non-empty set of ids
RECURSIVE FirstFrom(_, _)
FirstFrom(S, i) == IF CamOrder[i] \in S THEN CamOrder[i] ELSE FirstFrom(S, i + 1)
FirstId(S) == FirstFrom(S, 1)

\* ------------------------------------------------------------- CameraWorker

CameraHealth == [state |-> "STOPPED", fps_estimate |-> 0, last_error |-> "",
                 frames_total |-> 0, dropped_total |-> 0]

Max(a, b) == IF a >= b THEN a ELSE b
Min(a, b) == IF a <= b THEN a ELSE b

\* _min_frame_interval = 1.0 / max(1, int(fps_limit)), kept as its denominator n (1/n second)
MinFrameInterval(fps_limit) == Max(1, fps_limit)

NoWorker == [used |-> FALSE, cid |-> None, fps_limit |-> 0, min_frame_interval |-> 1,
             stop_evt |-> FALSE, thread |-> 0, cap |-> FALSE, health |-> CameraHealth,
             last_emit_ts |-> 0, fps_window_start |-> 0, fps_window_frames |-> 0]

\* CameraWorker.__init__(config), constructed at time now
NewWorker(cid, cfg, now) ==
    [used |-> TRUE, cid |-> cid, fps_limit |-> cfg.fps_limit,
     min_frame_interval |-> MinFrameInterval(cfg.fps_limit),
     stop_evt |-> FALSE, thread |-> 0, cap |-> FALSE, health |-> CameraHealth,
     last_emit_ts |-> 0, fps_window_start |-> now, fps_window_frames |-> 0]

NoThread == [pc |-> "none", backoff |-> 0]
DeadPc == {"none", "done", "crashed"}

ThreadAlive(w, s) == s # 0 /\ thread[w][s].pc \notin DeadPc

\* CameraWorker.is_alive(): only the thread _thread refers to. IsAliveNever is
\* an is_alive() that always answers no, the variant C18 is tested against.
IsAliveNever(w) == FALSE
IsAlive(w) == worker[w].used /\ ThreadAlive(w, worker[w].thread)

\* a run loop of worker w is executing (also one _thread no longer refers to)
LoopAlive(w) == \E s \in ThreadIds : ThreadAlive(w, s)

\* a CameraWorker nothing refers to any more, with no thread of its own left
Unreachable(w) ==
    /\ worker[w].used
    /\ ~LoopAlive(w)
    /\ ~worker[w].cap
    /\ \A c \in CameraIds : workers[c] # w
    /\ \A k \in CallerIds : caller[k].w # w

Reclaimable == {w \in WorkerIds : Unreachable(w)}

\* no unreferenced object is waiting to be reclaimed (see Reclaim)
Settled == \A w \in WorkerIds : ~Unreachable(w)

\* backoff = min(self.max_backoff_sec, backoff * 1.6). NextBackoffNoCap is the
\* growth without the ceiling, the variant C5 is tested against.
NextBackoffNoCap(b) == (b * 16) \div 10
NextBackoff(b) == Min(max_backoff_sec, (b * 16) \div 10)

\* (now - self._last_emit_ts) < self._min_frame_interval, with the interval
\* 1/interval second. FpsLimitedOff is a limiter that lets every frame pass,
\* the variant C4 is tested against.
FpsLimitedOff(now, last_emit_ts, interval) == FALSE
\* FpsLimitedBackwards is a limiter that holds back only the frames stamped
\* before the last emitted one, the variant C24 is tested against.
FpsLimitedBackwards(now, last_emit_ts, interval) == now < last_emit_ts
FpsLimited(now, last_emit_ts, interval) == (now - last_emit_ts) * interval < Second

\* An entry of CameraManager._health is a reference to a CameraHealth object:
\* ref names the worker whose live object it is; when that worker no longer
\* exists (ref = 0) val is the object as it was left. NoEntry: no entry.
NoHealth == [CameraHealth EXCEPT !.state = None]
NoEntry == [ref |-> 0, val |-> NoHealth]

\* CameraManager._wrap_health_cb._inner: self._health[h.camera_id] = h  (h is the worker's own object).
\* CacheHealthFirst is a cache that files every update under the first camera
\* id, the variant C22 is tested against.
CacheHealthFirst(hc, w) == [hc EXCEPT ![CamOrder[1]] = [ref |-> w, val |-> NoHealth]]
CacheHealth(hc, w) == [hc EXCEPT ![worker[w].cid] = [ref |-> w, val |-> NoHealth]]

\* self._lock is held by no thread calling the Manager (a run loop holds it only
\* inside the health callback, within one of its steps)
LockFree == \A k \in CallerIds : ~caller[k].lock

\* CameraWorker._notify_health: try: self.on_health(self.health) / except
\* Exception: pass. Whether an error raised by the health callback (raised)
\* leaves _notify_health: it never does. NotifyRaisesThrough is a
\* _notify_health without the except clause, the variant C17 is tested against.
NotifyRaisesThrough(raised) == raised
NotifyRaises(raised) == FALSE

\* ---- what the test harness records of worker w -----------------------------
\* run: whether w is in its first run (1) or a later one (2), counted at the
\* STARTING that start() publishes. In mode "run", of the current run: pub, the
\* health states handed to the health sink up to the first RUNNING; fails, the
\* capture opens that failed before it; waits, the time.sleep(backoff) calls,
\* each with the outcome of the reopen attempt made since the wait before it
\* ("none" for the first wait). In mode "frames": frames, the last two frames
\* handed to the frame sink, as timestamp (meta["ts"]) and run.
NoRecord == [run |-> 0, pub |-> <<>>, fails |-> 0, waits |-> <<>>, reopen |-> "none", frames |-> <<>>]

HasRun(r) == \E i \in DOMAIN r.pub : r.pub[i] = "RUNNING"

Published(sk, w, st) ==
    IF sk.recording = "none" THEN sk
    ELSE IF st = "STARTING"
    THEN [sk EXCEPT !.of[w] = [NoRecord EXCEPT !.run = IF sk.of[w].run < 2 THEN sk.of[w].run + 1 ELSE 2,
                                               !.pub = IF sk.recording = "run" THEN <<st>> ELSE <<>>,
                                               !.frames = sk.of[w].frames]]
    ELSE IF sk.recording = "run" /\ Len(sk.of[w].pub) < MaxRecorded /\ ~HasRun(sk.of[w])
    THEN [sk EXCEPT !.of[w].pub = Append(@, st)]
    ELSE sk

Slept(sk, w, b) ==
    IF sk.recording = "run" /\ Len(sk.of[w].waits) < MaxRecorded
    THEN [sk EXCEPT !.of[w].waits = Append(@, [b |-> b, reopen |-> sk.of[w].reopen])]
    ELSE sk

\* _open_capture returned ok, at the loop's entry (pc open0) or in the reconnect flow
Opened(sk, w, pc, ok) ==
    IF sk.recording = "run"
    THEN [sk EXCEPT !.of[w].reopen = IF pc = "reopen" THEN (IF ok THEN "ok" ELSE "failed") ELSE @,
                    !.of[w].fails = IF ~ok /\ ~HasRun(sk.of[w]) THEN @ + 1 ELSE @]
    ELSE sk

Received(sk, w, ts) ==
    IF sk.recording = "frames"
    THEN [sk EXCEPT !.of[w].frames = IF Len(@) < 2 THEN Append(@, [ts |-> ts, run |-> sk.of[w].run])
                                     ELSE <<@[2], [ts |-> ts, run |-> sk.of[w].run]>>]
    ELSE sk

\* ---- _run_loop ----------------------------------------------------------
\* A thread's pc is its place in _run_loop: open0 (in _open_capture at the
\* loop's entry), top (at the while test), read (in self._cap.read()), sleep (in
\* time.sleep(backoff)), reopen (in _open_capture in the reconnect flow). A step
\* takes the thread from one place to the next.

RECURSIVE PublishedAll(_, _, _)
PublishedAll(sk, w, sts) ==
    IF sts = <<>> THEN sk ELSE PublishedAll(Published(sk, w, Head(sts)), w, Tail(sts))

\* the iteration of worker w's thread s ends (continue, or the end of the loop
\* body) with worker fields wk and backoff b, having published the states pub
\* (_wrap_health_cb._inner takes self._lock to write the cache: a step that
\* publishes waits until the lock is free)
EndIteration(w, s, wk, b, pub, sk) ==
    /\ pub # <<>> => LockFree
    /\ worker' = [worker EXCEPT ![w] = wk]
    /\ thread' = [thread EXCEPT ![w][s] =
                    IF pub # <<>> /\ NotifyRaises(faults.hc_raises)
                    THEN [pc |-> "crashed", backoff |-> 0]
                    ELSE [pc |-> "top", backoff |-> b]]
    /\ health' = IF pub = <<>> THEN health ELSE CacheHealth(health, w)
    /\ sink' = PublishedAll(sk, w, pub)

\* the stop cleanup at the end of _run_loop: self._release_capture();
\* self.health.state = "STOPPED". StopCleanupKeepsCapture is a cleanup that
\* does not release the capture, the variant C28 is tested against.
StopCleanupKeepsCapture(wk) == [wk EXCEPT !.health.state = "STOPPED"]
StopCleanup(wk) == [wk EXCEPT !.cap = FALSE, !.health.state = "STOPPED"]

\* while not self._stop_evt.is_set(): if self._cap is None or not isOpened():
\* DEGRADED, publish, sleep. After the loop: release, STOPPED, publish.
LoopTop(w, s) ==
    /\ Settled
    /\ worker[w].used
    /\ thread[w][s].pc = "top"
    /\ (worker[w].stop_evt \/ ~worker[w].cap) => LockFree
    /\ LET wk == worker[w]
           b == thread[w][s].backoff
       IN IF wk.stop_evt
          THEN /\ worker' = [worker EXCEPT ![w] = StopCleanup(wk)]
               /\ thread' = [thread EXCEPT ![w][s] = [pc |-> "done", backoff |-> 0]]
               /\ health' = CacheHealth(health, w)
               /\ sink' = Published(sink, w, "STOPPED")
          ELSE IF ~wk.cap
          THEN /\ worker' = [worker EXCEPT ![w].health.state = "DEGRADED"]
               /\ thread' = [thread EXCEPT ![w][s] =
                               IF NotifyRaises(faults.hc_raises)
                               THEN [pc |-> "crashed", backoff |-> 0]
                               ELSE [@ EXCEPT !.pc = "sleep"]]
               /\ health' = CacheHealth(health, w)
               /\ sink' = Slept(Published(sink, w, "DEGRADED"), w, b)
          ELSE /\ thread' = [thread EXCEPT ![w][s].pc = "read"]
               /\ UNCHANGED <<worker, health, sink>>
    /\ UNCHANGED <<registry, workers, caller, faults>>

\* _open_capture() returns: at the loop's entry (pc open0) and in the reconnect
\* flow (pc reopen), where the backoff is reset or grown
LoopOpen(w, s, ok) ==
    /\ Settled
    /\ worker[w].used
    /\ thread[w][s].pc \in {"open0", "reopen"}
    /\ ~ok => faults.open_fails > 0
    /\ LET pc == thread[w][s].pc
           b == thread[w][s].backoff
           h == worker[w].health
           nh == IF ok THEN [h EXCEPT !.last_error = "", !.state = "RUNNING"]
                 ELSE [h EXCEPT !.last_error = "open", !.state = "ERROR"]
           nb == IF pc = "open0" THEN b
                 ELSE IF ok THEN reconnect_backoff_sec ELSE NextBackoff(b)
       IN EndIteration(w, s, [worker[w] EXCEPT !.cap = ok, !.health = nh], nb, <<nh.state>>,
                       Opened(sink, w, pc, ok))
    /\ faults' = IF ok THEN faults ELSE [faults EXCEPT !.open_fails = @ - 1]
    /\ UNCHANGED <<registry, workers, caller>>

\* time.sleep(backoff) returns. LoopWakeGivesUp is a loop that ends after the
\* sleep instead of trying the open again, the variant C25 is tested against.
LoopWakeGivesUp(w, s) ==
    /\ Settled
    /\ worker[w].used
    /\ thread[w][s].pc = "sleep"
    /\ thread' = [thread EXCEPT ![w][s].pc = "done"]
    /\ UNCHANGED <<registry, workers, health, worker, caller, faults, sink>>
LoopWake(w, s) ==
    /\ Settled
    /\ worker[w].used
    /\ thread[w][s].pc = "sleep"
    /\ thread' = [thread EXCEPT ![w][s].pc = "reopen"]
    /\ UNCHANGED <<registry, workers, health, worker, caller, faults, sink>>

\* self._cap.read() with _cap already set to None by stop(): AttributeError, the thread dies
LoopReadCrash(w, s) ==
    /\ Settled
    /\ worker[w].used
    /\ thread[w][s].pc = "read"
    /\ ~worker[w].cap
    /\ thread' = [thread EXCEPT ![w][s] = [pc |-> "crashed", backoff |-> 0]]
    /\ UNCHANGED <<registry, workers, health, worker, caller, faults, sink>>

\* the health after a failed read: dropped_total += 1, last_error = "Frame read
\* failed" (here "read"), state = DEGRADED. ReadFailedUncounted is a
\* failed read that counts no dropped frame, the variant C23 is tested against.
ReadFailedUncounted(h) == [h EXCEPT !.last_error = "read", !.state = "DEGRADED"]
ReadFailed(h) ==
    [h EXCEPT !.dropped_total = @ + 1, !.last_error = "read", !.state = "DEGRADED"]

\* the read fails: not ok or frame is None
LoopReadFail(w, s) ==
    /\ Settled
    /\ worker[w].used
    /\ thread[w][s].pc = "read"
    /\ worker[w].health.dropped_total < MaxDropped
    /\ EndIteration(w, s,
                    [worker[w] EXCEPT !.cap = FALSE, !.health = ReadFailed(@)],
                    thread[w][s].backoff, <<"DEGRADED">>, sink)
    /\ UNCHANGED <<registry, workers, caller, faults>>

\* the read returns a frame at time now, which the fps limiter discards
LoopReadLimited(w, s, now) ==
    /\ Settled
    /\ worker[w].used
    /\ thread[w][s].pc = "read"
    /\ FpsLimited(now, worker[w].last_emit_ts, worker[w].min_frame_interval)
    /\ EndIteration(w, s, worker[w], thread[w][s].backoff, <<>>, sink)
    /\ UNCHANGED <<registry, workers, caller, faults>>

\* the read returns a frame at time now, which is emitted; the frame callback
\* returns (cb_ok) or raises
LoopReadEmit(w, s, now, cb_ok) ==
    /\ Settled
    /\ worker[w].used
    /\ thread[w][s].pc = "read"
    /\ ~FpsLimited(now, worker[w].last_emit_ts, worker[w].min_frame_interval)
    /\ worker[w].health.frames_total < MaxFrames
    /\ ~cb_ok => faults.cb_fails > 0
    /\ LET wk == worker[w]
           closes == (now - wk.fps_window_start) >= Second
           frames == wk.fps_window_frames + 1
           h1 == [wk.health EXCEPT !.frames_total = @ + 1, !.state = "RUNNING"]
           h2 == IF closes
                 THEN [h1 EXCEPT !.fps_estimate = (frames * Second) \div Max(1, now - wk.fps_window_start)]
                 ELSE h1
           h3 == IF cb_ok THEN h2 ELSE [h2 EXCEPT !.last_error = "on_frame"]
       IN EndIteration(w, s,
                          [wk EXCEPT !.last_emit_ts = now,
                                     !.health = h3,
                                     !.fps_window_frames = IF closes THEN 0 ELSE frames,
                                     !.fps_window_start = IF closes THEN now ELSE @],
                          thread[w][s].backoff,
                          (IF closes THEN <<"RUNNING">> ELSE <<>>)
                            \o (IF cb_ok THEN <<>> ELSE <<"RUNNING">>),
                          Received(sink, w, now))
    /\ faults' = IF cb_ok THEN faults ELSE [faults EXCEPT !.cb_fails = @ - 1]
    /\ UNCHANGED <<registry, workers, caller>>

\* ---------------------------------------------------------- CameraManager
\* A caller is a thread executing one Manager call at a time. pc is its place
\* in the call; op and arg the public method called and its camera id; cid the
\* camera id of the start()/stop() it is in; w its local `worker`; jt the
\* thread join() waits for; todo what a loop has left to iterate. At pc "ret"
\* the call has returned (err = "") or raised err, and the caller has not gone
\* on yet. acted, again, live0 and fresh record the call's history: whether it
\* constructed a Worker or issued a lifecycle call; whether it is an
\* apply_registry_state() that follows another with nothing in between (last:
\* this caller's last call was one, and the Registry has not changed since); for
\* apply_registry_state() the cameras that had a live tracked Worker when it
\* began; and whether the Manager was untouched when the call began. lock:
\* the thread is inside a `with self._lock` block of the method it executes.

IdleCaller == [op |-> "none", arg |-> None, cid |-> None, pc |-> "idle", w |-> 0, jt |-> 0,
               todo |-> {}, enabled |-> {}, known |-> {}, err |-> "",
               acted |-> FALSE, again |-> FALSE, live0 |-> {}, fresh |-> FALSE, last |-> FALSE,
               lock |-> FALSE]

\* the end of a `with self._lock` block. ReleasedNever is a block that keeps the
\* lock, the variant C16 is tested against.
ReleasedNever(c) == c
Released(c) == [c EXCEPT !.lock = FALSE]

\* the places at which start, stop, restart and apply_registry_state enter a
\* `with self._lock` block whose body is a step of its own
LockPcs == {"start_lock", "stop_get", "stop_pop", "restart_get", "ap_prune"}

Ready(k) == Settled /\ caller[k].pc = "idle"

Tracked == {c \in CameraIds : workers[c] # 0}

\* cid in self._workers and self._workers[cid].is_alive()
TrackedAlive(c) == workers[c] # 0 /\ IsAlive(workers[c])

Untouched == /\ \A c \in CameraIds : workers[c] = 0 /\ health[c] = NoEntry
             /\ \A w \in WorkerIds : ~worker[w].used

Begin(k, op, arg, pc) ==
    [IdleCaller EXCEPT !.op = op, !.arg = arg, !.cid = arg, !.pc = pc,
                       !.again = op = "apply_registry_state" /\ caller[k].last,
                       !.live0 = IF op = "apply_registry_state"
                                 THEN {c \in CameraIds : TrackedAlive(c)} ELSE {},
                       !.fresh = Untouched]

\* the call returns (err = "") or raises err
Return(c, err) ==
    [c EXCEPT !.pc = "ret", !.err = err, !.cid = None, !.w = 0, !.jt = 0,
              !.todo = {}, !.enabled = {}, !.known = {}]

\* where control goes when CameraManager.start(cid) returns
AfterStart(c) ==
    CASE c.op = "start_all_enabled" -> [c EXCEPT !.pc = "sa_next", !.w = 0]
      [] c.op = "apply_registry_state" -> [c EXCEPT !.pc = "ap_start_next", !.w = 0]
      [] OTHER -> Return(c, "")

\* where control goes when CameraManager.stop(cid) returns
AfterStop(c) ==
    CASE c.op = "stop_all" -> [c EXCEPT !.pc = "so_next", !.w = 0]
      [] c.op = "apply_registry_state" -> [c EXCEPT !.pc = "ap_stop_next", !.w = 0]
      [] OTHER -> Return(c, "")

\* ---- the public methods are called ---------------------------------------

CallStart(k, cid) ==
    /\ Ready(k)
    /\ caller' = [caller EXCEPT ![k] = Begin(k, "start", cid, "start_lock")]
    /\ UNCHANGED <<registry, workers, health, worker, thread, faults, sink>>

CallStop(k, cid) ==
    /\ Ready(k)
    /\ caller' = [caller EXCEPT ![k] = Begin(k, "stop", cid, "stop_get")]
    /\ UNCHANGED <<registry, workers, health, worker, thread, faults, sink>>

CallRestart(k, cid) ==
    /\ Ready(k)
    /\ caller' = [caller EXCEPT ![k] = Begin(k, "restart", cid, "restart_get")]
    /\ UNCHANGED <<registry, workers, health, worker, thread, faults, sink>>

\* start_all_enabled(): cams = self.registry.list(include_disabled=False)
CallStartAllEnabled(k) ==
    /\ Ready(k)
    /\ caller' = [caller EXCEPT ![k] =
                    [Begin(k, "start_all_enabled", None, "sa_next")
                       EXCEPT !.todo = RegistryList(registry, FALSE)]]
    /\ UNCHANGED <<registry, workers, health, worker, thread, faults, sink>>

\* stop_all(): ids = list(self._workers.keys())
CallStopAll(k) ==
    /\ Ready(k)
    /\ caller' = [caller EXCEPT ![k] =
                    [Begin(k, "stop_all", None, "so_next") EXCEPT !.todo = Tracked]]
    /\ UNCHANGED <<registry, workers, health, worker, thread, faults, sink>>

\* apply_registry_state(): enabled, all_known, and running = set(self._workers.keys())
CallApplyRegistryState(k) ==
    /\ Ready(k)
    /\ LockFree
    /\ caller' = [caller EXCEPT ![k] =
                    [Begin(k, "apply_registry_state", None, "ap_stop_next")
                       EXCEPT !.enabled = RegistryList(registry, FALSE),
                              !.known = RegistryList(registry, TRUE),
                              !.todo = Tracked]]
    /\ UNCHANGED <<registry, workers, health, worker, thread, faults, sink>>

\* the caller goes on after the call
CallReturn(k) ==
    /\ Settled
    /\ caller[k].pc = "ret"
    /\ caller' = [caller EXCEPT ![k] =
                    [IdleCaller EXCEPT !.last = caller[k].op = "apply_registry_state"]]
    /\ UNCHANGED <<registry, workers, health, worker, thread, faults, sink>>

\* ---- with self._lock: -----------------------------------------------------

\* the thread acquires self._lock (start() has called _require_config before)
ManagerLock(k) ==
    /\ Settled
    /\ caller[k].pc \in LockPcs
    /\ caller[k].pc = "start_lock" => registry[caller[k].cid] # NoConfig
    /\ LockFree
    /\ caller' = [caller EXCEPT ![k].lock = TRUE]
    /\ UNCHANGED <<registry, workers, health, worker, thread, faults, sink>>

\* ---- CameraManager.start(camera_id) --------------------------------------

\* _require_config, then under the lock: return if a live worker is tracked,
\* else construct a CameraWorker and store it
ManagerStart(k, now) ==
    /\ Settled
    /\ caller[k].pc = "start_lock"
    /\ registry[caller[k].cid] # NoConfig => caller[k].lock
    /\ LET c == caller[k]
           cid == c.cid
           free == {w \in WorkerIds : ~worker[w].used}
           w == CHOOSE x \in free : \A y \in free : x <= y
       IN IF registry[cid] = NoConfig
          THEN /\ caller' = [caller EXCEPT ![k] = Return(c, "not_found")]
               /\ UNCHANGED <<workers, worker>>
          ELSE IF TrackedAlive(cid)
          THEN /\ caller' = [caller EXCEPT ![k] = AfterStart(Released(c))]
               /\ UNCHANGED <<workers, worker>>
          ELSE /\ free # {}
               /\ worker' = [worker EXCEPT ![w] = NewWorker(cid, registry[cid], now)]
               /\ workers' = [workers EXCEPT ![cid] = w]
               /\ caller' = [caller EXCEPT ![k] = [Released(c) EXCEPT !.w = w, !.pc = "wstart_chk",
                                                                      !.acted = TRUE]]
    /\ UNCHANGED <<registry, health, thread, faults, sink>>

\* ---- CameraWorker.start() ------------------------------------------------

\* if self._thread and self._thread.is_alive(): return
WorkerStartCheck(k) ==
    /\ Settled
    /\ caller[k].pc = "wstart_chk"
    /\ caller' = [caller EXCEPT ![k] =
                    IF IsAlive(caller[k].w) THEN AfterStart(caller[k])
                    ELSE [caller[k] EXCEPT !.pc = "wstart_go"]]
    /\ UNCHANGED <<registry, workers, health, worker, thread, faults, sink>>

\* clear the stop signal, state STARTING, publish, create and start the thread
WorkerStartGo(k) ==
    /\ Settled
    /\ caller[k].pc = "wstart_go"
    /\ LockFree
    /\ LET w == caller[k].w
           free == {s \in ThreadIds : thread[w][s].pc \in DeadPc}
           s == CHOOSE x \in free : \A y \in free : x <= y
       IN /\ free # {}
          /\ worker' = [worker EXCEPT ![w].stop_evt = FALSE,
                                      ![w].health.state = "STARTING",
                                      ![w].thread = s]
          /\ thread' = [thread EXCEPT ![w][s] = [pc |-> "open0", backoff |-> reconnect_backoff_sec]]
          /\ health' = CacheHealth(health, w)
          /\ sink' = Published(sink, w, "STARTING")
    /\ caller' = [caller EXCEPT ![k] = AfterStart(caller[k])]
    /\ UNCHANGED <<registry, workers, faults>>

\* ---- CameraManager.stop(camera_id), CameraWorker.stop(timeout) ------------

\* under the lock: worker = self._workers.get(camera_id)
ManagerStopGet(k) ==
    /\ Settled
    /\ caller[k].pc = "stop_get"
    /\ caller[k].lock
    /\ LET w == workers[caller[k].cid]
           c == Released(caller[k])
       IN caller' = [caller EXCEPT ![k] =
                       IF w # 0 THEN [c EXCEPT !.w = w, !.pc = "wstop_set", !.acted = TRUE]
                       ELSE [c EXCEPT !.pc = "stop_pop"]]
    /\ UNCHANGED <<registry, workers, health, worker, thread, faults, sink>>

\* where control goes when CameraWorker.stop() returns: on into restart()
\* (refresh the fps limiter, then start()) or back into CameraManager.stop
AfterWorkerStop(c) ==
    [c EXCEPT !.pc = IF c.op = "restart" THEN "wstart_chk" ELSE "stop_pop", !.jt = 0]

\* self.health.state = "STOPPED": the other fields of the object stay as they
\* are. StoppedAnew is a stop that leaves a fresh CameraHealth, the variant C14
\* is tested against.
StoppedAnew(h) == CameraHealth
Stopped(h) == [h EXCEPT !.state = "STOPPED"]

\* the end of CameraWorker.stop(), from worker fields wk: state STOPPED, publish;
\* and in restart()  self._min_frame_interval = 1.0 / max(1, int(self.config.fps_limit))
WorkerStopped(k, w, wk) ==
    /\ LockFree
    /\ worker' = [worker EXCEPT ![w] =
                    [wk EXCEPT !.health = Stopped(@),
                               !.min_frame_interval =
                                   IF caller[k].op = "restart"
                                   THEN MinFrameInterval(wk.fps_limit) ELSE @]]
    /\ health' = CacheHealth(health, w)
    /\ sink' = Published(sink, w, "STOPPED")
    /\ caller' = [caller EXCEPT ![k] = AfterWorkerStop(caller[k])]

\* set the stop signal, release the capture; join if the thread is alive
WorkerStopSet(k) ==
    /\ Settled
    /\ caller[k].pc = "wstop_set"
    /\ LET w == caller[k].w
           wk == [worker[w] EXCEPT !.stop_evt = TRUE, !.cap = FALSE]
       IN IF IsAlive(w)
          THEN /\ worker' = [worker EXCEPT ![w] = wk]
               /\ caller' = [caller EXCEPT ![k] = [caller[k] EXCEPT !.pc = "wstop_join",
                                                                   !.jt = worker[w].thread]]
               /\ UNCHANGED <<health, sink>>
          ELSE WorkerStopped(k, w, wk)
    /\ UNCHANGED <<registry, workers, thread, faults>>

\* join() returns because the thread has ended
WorkerStopJoined(k) ==
    /\ Settled
    /\ caller[k].pc = "wstop_join"
    /\ ~ThreadAlive(caller[k].w, caller[k].jt)
    /\ WorkerStopped(k, caller[k].w, worker[caller[k].w])
    /\ UNCHANGED <<registry, workers, thread, faults>>

\* the thread is in a call that outlasts the join timeout: a sleep longer than
\* it, or a capture open or read that blocks
BlockedPastTimeout(w, s) ==
    \/ thread[w][s].pc \in {"open0", "reopen", "read"}
    \/ thread[w][s].pc = "sleep" /\ thread[w][s].backoff > stop_timeout

\* join(timeout) returns with the thread still alive
WorkerStopTimedOut(k) ==
    /\ Settled
    /\ caller[k].pc = "wstop_join"
    /\ ThreadAlive(caller[k].w, caller[k].jt)
    /\ BlockedPastTimeout(caller[k].w, caller[k].jt)
    /\ WorkerStopped(k, caller[k].w, worker[caller[k].w])
    /\ UNCHANGED <<registry, workers, thread, faults>>

\* under the lock: self._workers.pop(camera_id, None)
ManagerStopPop(k) ==
    /\ Settled
    /\ caller[k].pc = "stop_pop"
    /\ caller[k].lock
    /\ workers' = [workers EXCEPT ![caller[k].cid] = 0]
    /\ caller' = [caller EXCEPT ![k] = AfterStop(Released(caller[k]))]
    /\ UNCHANGED <<registry, health, worker, thread, faults, sink>>

\* ---- CameraManager.restart(camera_id) ------------------------------------

\* under the lock: worker = self._workers.get(camera_id); worker.restart() if
\* there is one, else self.start(camera_id)
ManagerRestartGet(k) ==
    /\ Settled
    /\ caller[k].pc = "restart_get"
    /\ caller[k].lock
    /\ LET w == workers[caller[k].cid]
           c == Released(caller[k])
       IN caller' = [caller EXCEPT ![k] =
                       IF w # 0 THEN [c EXCEPT !.w = w, !.pc = "wstop_set", !.acted = TRUE]
                       ELSE [c EXCEPT !.pc = "start_lock"]]
    /\ UNCHANGED <<registry, workers, health, worker, thread, faults, sink>>

\* ---- the loops of start_all_enabled, stop_all, apply_registry_state -------

\* for cam in cams: self.start(cam.id)   (cams is sorted by id)
StartAllNext(k) ==
    /\ Settled
    /\ caller[k].pc = "sa_next"
    /\ LET c == caller[k]
       IN caller' = [caller EXCEPT ![k] =
                       IF c.todo = {} THEN Return(c, "")
                       ELSE [c EXCEPT !.cid = FirstId(c.todo), !.todo = @ \ {FirstId(c.todo)},
                                      !.pc = "start_lock"]]
    /\ UNCHANGED <<registry, workers, health, worker, thread, faults, sink>>

\* for cid in ids: self.stop(cid)
StopAllNext(k) ==
    /\ Settled
    /\ caller[k].pc = "so_next"
    /\ LET c == caller[k]
       IN IF c.todo = {}
          THEN caller' = [caller EXCEPT ![k] = Return(c, "")]
          ELSE \E x \in c.todo :
                  caller' = [caller EXCEPT ![k] = [c EXCEPT !.cid = x, !.todo = @ \ {x},
                                                            !.pc = "stop_get"]]
    /\ UNCHANGED <<registry, workers, health, worker, thread, faults, sink>>

\* for cid in list(running): if cid not in enabled: self.stop(cid)
ApplyStopNext(k) ==
    /\ Settled
    /\ caller[k].pc = "ap_stop_next"
    /\ LET c == caller[k]
       IN IF c.todo = {}
          THEN caller' = [caller EXCEPT ![k] = [c EXCEPT !.todo = c.enabled,
                                                         !.pc = "ap_start_next"]]
          ELSE \E x \in c.todo :
                  caller' = [caller EXCEPT ![k] =
                               IF x \notin c.enabled
                               THEN [c EXCEPT !.cid = x, !.todo = @ \ {x}, !.pc = "stop_get"]
                               ELSE [c EXCEPT !.todo = @ \ {x}]]
    /\ UNCHANGED <<registry, workers, health, worker, thread, faults, sink>>

\* for cid in enabled: alive under the lock; if not alive: self.start(cid)
ApplyStartNext(k) ==
    /\ Settled
    /\ caller[k].pc = "ap_start_next"
    /\ caller[k].todo # {} => LockFree
    /\ LET c == caller[k]
       IN IF c.todo = {}
          THEN caller' = [caller EXCEPT ![k] = [c EXCEPT !.pc = "ap_prune"]]
          ELSE \E x \in c.todo :
                  caller' = [caller EXCEPT ![k] =
                               IF ~TrackedAlive(x)
                               THEN [c EXCEPT !.cid = x, !.todo = @ \ {x}, !.pc = "start_lock"]
                               ELSE [c EXCEPT !.todo = @ \ {x}]]
    /\ UNCHANGED <<registry, workers, health, worker, thread, faults, sink>>

\* under the lock: drop the health of every id not in all_known
ApplyPrune(k) ==
    /\ Settled
    /\ caller[k].pc = "ap_prune"
    /\ caller[k].lock
    /\ health' = [c \in CameraIds |-> IF c \notin caller[k].known THEN NoEntry ELSE health[c]]
    /\ caller' = [caller EXCEPT ![k] = Return(Released(caller[k]), "")]
    /\ UNCHANGED <<registry, workers, worker, thread, faults, sink>>

\* ---- read-only views -----------------------------------------------------

\* get_health(camera_id): the cached object, read now (None if there is none)
GetHealth(cid) == IF health[cid].ref # 0 THEN worker[health[cid].ref].health ELSE health[cid].val

\* snapshot(): total and running of ManagerSnapshot
SnapshotTotal == Cardinality({c \in CameraIds : health[c] # NoEntry})
SnapshotRunning == Cardinality({c \in CameraIds : health[c] # NoEntry /\ GetHealth(c).state = "RUNNING"})

\* ---- the Registry is changed (by the thread that owns it, between calls) ---

Forgotten == [k \in CallerIds |-> IdleCaller]

\* CameraRegistry.add(camera)
RegistryAdd(cid, cfg) ==
    /\ \A k \in CallerIds : Ready(k)
    /\ registry[cid] = NoConfig
    /\ registry' = [registry EXCEPT ![cid] = cfg]
    /\ caller' = Forgotten
    /\ UNCHANGED <<workers, health, worker, thread, faults, sink>>

\* CameraRegistry.update(camera_id, patch), as enable() and disable() call it
RegistrySetEnabled(cid, e) ==
    /\ \A k \in CallerIds : Ready(k)
    /\ registry[cid] # NoConfig
    /\ registry[cid].enabled # e
    /\ registry' = [registry EXCEPT ![cid].enabled = e]
    /\ caller' = Forgotten
    /\ UNCHANGED <<workers, health, worker, thread, faults, sink>>

\* CameraRegistry.update(camera_id, {"fps_limit": f}): _apply_patch builds a new
\* CameraConfig and the registry stores it in place of the one it held (a
\* CameraWorker keeps the CameraConfig it was constructed with)
RegistryUpdateFps(cid, f) ==
    /\ \A k \in CallerIds : Ready(k)
    /\ registry[cid] # NoConfig
    /\ registry[cid].fps_limit # f
    /\ registry' = [registry EXCEPT ![cid] = CameraConfig(registry[cid].enabled, f)]
    /\ caller' = Forgotten
    /\ UNCHANGED <<workers, health, worker, thread, faults, sink>>

\* CameraRegistry.delete(camera_id)
RegistryDelete(cid) ==
    /\ \A k \in CallerIds : Ready(k)
    /\ registry[cid] # NoConfig
    /\ registry' = [registry EXCEPT ![cid] = NoConfig]
    /\ caller' = Forgotten
    /\ UNCHANGED <<workers, health, worker, thread, faults, sink>>

\* ---- the runtime reclaims a CameraWorker nothing refers to ----------------
\* After self._workers.pop / the overwrite of self._workers[camera_id], with no
\* thread of its own left and no caller holding it, the object is freed; its
\* CameraHealth lives on if _health still refers to it. A worker that holds an
\* open capture is kept to be seen.


Reclaim ==
    /\ Reclaimable # {}
    /\ worker' = [w \in WorkerIds |-> IF w \in Reclaimable THEN NoWorker ELSE worker[w]]
    /\ thread' = [w \in WorkerIds |->
                    IF w \in Reclaimable THEN [s \in ThreadIds |-> NoThread] ELSE thread[w]]
    /\ health' = [c \in CameraIds |->
                    IF health[c].ref \in Reclaimable
                    THEN [ref |-> 0, val |-> worker[health[c].ref].health] ELSE health[c]]
    /\ sink' = [sink EXCEPT !.of = [w \in WorkerIds |->
                                      IF w \in Reclaimable THEN NoRecord ELSE sink.of[w]]]
    /\ UNCHANGED <<registry, workers, caller, faults>>

\* ------------------------------------------------------------ specifications

\* the state after CameraManager.__init__: the registry as loaded, no worker;
\* flts are the environments the program may run in
InitFaults(regs, flts, recording) ==
    /\ registry \in regs
    /\ workers = [c \in CameraIds |-> 0]
    /\ health = [c \in CameraIds |-> NoEntry]
    /\ worker = [w \in WorkerIds |-> NoWorker]
    /\ thread = [w \in WorkerIds |-> [s \in ThreadIds |-> NoThread]]
    /\ caller = [k \in CallerIds |-> IdleCaller]
    /\ faults \in flts
    /\ sink = [recording |-> recording, of |-> [w \in WorkerIds |-> NoRecord]]

\* the same, with health sinks that do not raise
InitWith(regs, open_fails, cb_fails, recording) ==
    InitFaults(regs, {[open_fails |-> open_fails, cb_fails |-> cb_fails, hc_raises |-> FALSE]},
               recording)

\* the steps of the run loops while the capture source works (an open may still
\* fail while faults allows), with frames read at the times of Times
LoopStepWorking(Times) ==
    \E w \in WorkerIds, s \in ThreadIds :
        \/ \E ok \in BOOLEAN : LoopOpen(w, s, ok)
        \/ LoopTop(w, s)
        \/ LoopReadCrash(w, s)
        \/ \E now \in Times : LoopReadLimited(w, s, now)
        \/ \E now \in Times, cb_ok \in BOOLEAN : LoopReadEmit(w, s, now, cb_ok)

\* the steps of the run loops of a source that may also fail to deliver
LoopStep(Times) ==
    \/ LoopStepWorking(Times)
    \/ \E w \in WorkerIds, s \in ThreadIds :
        \/ LoopWake(w, s)
        \/ LoopReadFail(w, s)

\* the steps inside CameraManager.start and CameraWorker.start, by caller k
StartStep(k, Times) ==
    \/ \E now \in Times : ManagerStart(k, now)
    \/ WorkerStartCheck(k)
    \/ WorkerStartGo(k)

\* the steps inside CameraManager.stop and CameraWorker.stop, by caller k
StopStep(k) ==
    \/ ManagerStopGet(k)
    \/ WorkerStopSet(k)
    \/ WorkerStopJoined(k)
    \/ ManagerStopPop(k)

\* the steps inside start, stop and restart, by caller k
CallStep(k, Times) ==
    \/ StartStep(k, Times)
    \/ StopStep(k)
    \/ ManagerRestartGet(k)

\* the steps of the loops of start_all_enabled, stop_all and apply_registry_state
BulkStep(k) ==
    \/ StartAllNext(k)
    \/ StopAllNext(k)
    \/ ApplyStopNext(k)
    \/ ApplyStartNext(k)
    \/ ApplyPrune(k)

RegistryStep(ids, fps) ==
    \E cid \in ids :
        \/ \E e \in BOOLEAN : RegistryAdd(cid, CameraConfig(e, fps))
        \/ \E e \in BOOLEAN : RegistrySetEnabled(cid, e)
        \/ RegistryDelete(cid)

\* the registries that hold cameras of ids only, each enabled or disabled
Registries(ids, fps) ==
    {r \in [CameraIds -> {NoConfig} \cup {CameraConfig(e, fps) : e \in BOOLEAN}] :
        \A c \in CameraIds \ ids : r[c] = NoConfig}

\* ---- Spec: one thread calls the Manager, one call after the other ---------
\* cam_1 is added, enabled, disabled and deleted between the calls (fps_limit 5
\* as in the sample registry); cam_2 is an id the registry never holds. The
\* source delivers frames (all carry the same timestamp) and a join may time out.

Init == InitWith(Registries({"cam_1"}, 5), 0, 0, "none")

\* the steps in which every join returns with the loop ended
NextLock ==
    \/ \E cid \in CameraIds : CallStart(1, cid)
    \/ \E cid \in CameraIds : CallStop(1, cid)
    \/ \E cid \in CameraIds : CallRestart(1, cid)
    \/ CallStartAllEnabled(1)
    \/ CallStopAll(1)
    \/ CallApplyRegistryState(1)
    \/ CallReturn(1)
    \/ ManagerLock(1)
    \/ CallStep(1, {Epoch})
    \/ BulkStep(1)
    \/ LoopStepWorking({Epoch})
    \/ RegistryStep({"cam_1"}, 5)
    \/ Reclaim

Next ==
    \/ NextLock
    \/ WorkerStopTimedOut(1)

Spec == Init /\ [][Next]_vars

\* ---- SpecLock: the Manager lock -------------------------------------------
\* As Spec, every public method of the Manager being called, with loops that
\* end within the join timeout: the thread calling the Manager and the run
\* loops, which publish, take self._lock in turn.

SpecLock == Init /\ [][NextLock]_vars

\* ---- one camera's Worker, started and restarted ---------------------------
\* One thread calls start("cam_1") and restart("cam_1"): the Manager constructs
\* cam_1's Worker and starts it, and restart() stops and starts that instance
\* (a dead one is replaced at the next start). A join may time out.
WorkerCalls ==
    \/ CallStart(1, "cam_1")
    \/ CallRestart(1, "cam_1")
    \/ CallReturn(1)
    \/ ManagerLock(1)
    \/ ManagerRestartGet(1)
    \/ StartStep(1, {Epoch})
    \/ WorkerStopSet(1)
    \/ WorkerStopJoined(1)
    \/ WorkerStopTimedOut(1)

OneCamera(cfg) == [c \in CameraIds |-> IF c = "cam_1" THEN cfg ELSE NoConfig]

\* ---- SpecFps: the fps limiter ---------------------------------------------
\* cam_1 is enabled with an fps_limit of FpsLimits: the ends of the range the
\* Registry accepts (1..60) and 3. The source delivers a frame at every read,
\* and the clock read after it gives any time of FrameTimes, in any order:
\* Epoch, and the ticks just before and at 1/60 s, 1/3 s and 1 s after it. The
\* harness records the frames handed to the frame sink.

FpsLimits == {1, 3, 60}
FrameTimes == {Epoch, Epoch + 1666, Epoch + 1667, Epoch + 33333, Epoch + 33334,
               Epoch + Second - 1, Epoch + Second}

InitFps == InitWith({OneCamera(CameraConfig(TRUE, f)) : f \in FpsLimits}, 0, 0, "frames")

NextFps ==
    \/ WorkerCalls
    \/ LoopStepWorking(FrameTimes)
    \/ Reclaim

SpecFps == InitFps /\ [][NextFps]_vars

\* ---- SpecUpdate: a configuration change and restart -------------------------
\* cam_1 is enabled with an fps_limit of UpdateFps, which registry.update()
\* changes between the calls of start("cam_1") and restart("cam_1").

UpdateFps == {5, 10}

InitUpdate == InitWith({OneCamera(CameraConfig(TRUE, f)) : f \in UpdateFps}, 0, 0, "none")

NextUpdate ==
    \/ WorkerCalls
    \/ LoopStepWorking({Epoch})
    \/ \E f \in UpdateFps : RegistryUpdateFps("cam_1", f)
    \/ Reclaim

SpecUpdate == InitUpdate /\ [][NextUpdate]_vars

\* ---- SpecSinks: sinks that raise --------------------------------------------
\* cam_1 is enabled. The frame callback raises up to MaxCbFails times, and the
\* external health callback raises at every invocation or at none. Frames are
\* read at SinkTimes, within and beyond the first fps window.

SinkTimes == {Epoch, Epoch + Second}

InitSinks ==
    InitFaults({OneCamera(CameraConfig(TRUE, 5))},
               {[open_fails |-> 0, cb_fails |-> MaxCbFails, hc_raises |-> r] : r \in BOOLEAN},
               "none")

NextSinks ==
    \/ WorkerCalls
    \/ LoopStepWorking(SinkTimes)
    \/ Reclaim

SpecSinks == InitSinks /\ [][NextSinks]_vars

\* ---- SpecReconnect: the reconnect flow --------------------------------------
\* cam_1 is enabled. The capture source fails to open up to MaxOpenFails times
\* and a read may fail. The harness records the publishes and sleeps of each
\* run of the loop.

InitReconnect == InitWith({OneCamera(CameraConfig(TRUE, 5))}, MaxOpenFails, 0, "run")

NextReconnect ==
    \/ WorkerCalls
    \/ LoopStep({Epoch})
    \/ Reclaim

SpecReconnect == InitReconnect /\ [][NextReconnect]_vars

\* ---- SpecStartAll: start_all_enabled() over two cameras -------------------
\* The registry holds any of cam_1 and cam_2, enabled or disabled, and changes
\* between the calls; one thread calls start_all_enabled(), the first time on
\* the Manager as constructed. A capture source fails to open up to
\* MaxStartFails times and a read may fail, while the loops run beside the call.

InitStartAll == InitWith(Registries(CameraIds, 5), MaxStartFails, 0, "none")

NextStartAll ==
    \/ CallStartAllEnabled(1)
    \/ StartAllNext(1)
    \/ ManagerLock(1)
    \/ StartStep(1, {Epoch})
    \/ CallReturn(1)
    \/ \E w \in WorkerIds, s \in ThreadIds :
        \/ \E ok \in BOOLEAN : LoopOpen(w, s, ok)
        \/ LoopTop(w, s)
        \/ LoopWake(w, s)
        \/ LoopReadFail(w, s)
        \/ LoopReadLimited(w, s, Epoch)
        \/ LoopReadEmit(w, s, Epoch, TRUE)
    \/ RegistryStep(CameraIds, 5)

SpecStartAll == InitStartAll /\ [][NextStartAll]_vars

\* ---- SpecIsolation: two cameras side by side ----------------------------
\* cam_1 and cam_2 are enabled and started by start_all_enabled(). A capture
\* source fails to open up to MaxStartFails times, a read may fail, the frame
\* callback raises up to MaxCbFails times and the health callback may raise
\* on every call.

InitIsolation ==
    InitFaults({[c \in CameraIds |-> CameraConfig(TRUE, 5)]},
               {[open_fails |-> MaxStartFails, cb_fails |-> MaxCbFails, hc_raises |-> r] :
                    r \in BOOLEAN},
               "none")

NextIsolation ==
    \/ CallStartAllEnabled(1)
    \/ StartAllNext(1)
    \/ ManagerLock(1)
    \/ StartStep(1, {Epoch})
    \/ CallReturn(1)
    \/ \E w \in WorkerIds, s \in ThreadIds :
        \/ \E ok \in BOOLEAN : LoopOpen(w, s, ok)
        \/ LoopTop(w, s)
        \/ LoopWake(w, s)
        \/ LoopReadFail(w, s)
        \/ LoopReadLimited(w, s, Epoch)
        \/ \E cb_ok \in BOOLEAN : LoopReadEmit(w, s, Epoch, cb_ok)

SpecIsolation == InitIsolation /\ [][NextIsolation]_vars

\* ---- SpecConc: apply_registry_state() beside manual start and stop --------
\* cam_1 is in the registry, enabled or disabled, and is switched between the
\* calls. Caller 1 calls apply_registry_state(); caller 2 calls start("cam_1")
\* and stop("cam_1"); their steps interleave freely. The source delivers
\* frames and every blocking call returns, so that a join returns with the
\* loop ended.

InitConc == InitWith({OneCamera(CameraConfig(e, 5)) : e \in BOOLEAN}, 0, 0, "none")

NextConc ==
    \/ CallApplyRegistryState(1)
    \/ CallStart(2, "cam_1")
    \/ CallStop(2, "cam_1")
    \/ \E k \in CallerIds :
        \/ CallReturn(k)
        \/ ManagerLock(k)
        \/ StartStep(k, {Epoch})
        \/ StopStep(k)
    \/ ApplyStopNext(1)
    \/ ApplyStartNext(1)
    \/ ApplyPrune(1)
    \/ LoopStepWorking({Epoch})
    \/ \E e \in BOOLEAN : RegistrySetEnabled("cam_1", e)
    \/ Reclaim

SpecConc == InitConc /\ [][NextConc]_vars

\* ------------------------------------------------------------------ claims
\* A call's contract is stated in the state in which the call has returned and
\* its caller has not gone on (pc "ret").

Returned(k, op) == caller[k].pc = "ret" /\ caller[k].op = op

NoOtherCall(k) == \A j \in CallerIds \ {k} : caller[j].pc \in {"idle", "ret"}

\* the workers of camera c with a run loop executing
LoopsOf(c) == {w \in WorkerIds : worker[w].used /\ worker[w].cid = c /\ LoopAlive(w)}

\* the Registry's enabled set
Enabled == {c \in CameraIds : registry[c] # NoConfig /\ registry[c].enabled}

\* C1: when apply_registry_state() returns with no other Manager call running,
\* every camera outside the Registry's enabled set has no live run loop, and
\* every camera in it has a tracked Worker whose run loop is alive.
C1_ApplyConverges ==
    \A k \in CallerIds :
        Returned(k, "apply_registry_state") /\ NoOtherCall(k) =>
            \A c \in CameraIds :
                IF c \in Enabled THEN workers[c] # 0 /\ LoopAlive(workers[c])
                ELSE LoopsOf(c) = {}

\* C2: an apply_registry_state() that directly follows another, with no
\* Registry change and no other Manager call in between, constructs no Worker
\* and issues no Worker start or stop.
C2_ApplyIdempotent ==
    \A k \in CallerIds :
        Returned(k, "apply_registry_state") /\ caller[k].again => ~caller[k].acted

\* C3 (the case of a tracked Worker): when stop(camera_id) has stopped the
\* Worker it found tracked under camera_id and returns, get_health(camera_id)
\* reports state STOPPED.
C3_StopThenHealthStopped ==
    \A k \in CallerIds :
        Returned(k, "stop") /\ caller[k].acted => GetHealth(caller[k].arg).state = "STOPPED"

\* C4: the timestamps of two consecutive frames one Worker hands to the frame
\* callback differ by at least 1/F, F the camera's fps_limit, whatever the
\* clock reads at each frame, also when a restart() lies between the two.
C4_MinFrameInterval ==
    \A w \in WorkerIds :
        LET fs == sink.of[w].frames
        IN worker[w].used /\ Len(fs) = 2 =>
              (fs[2].ts - fs[1].ts) * worker[w].fps_limit >= Second

\* two frames 1/60 s (rounded up to the tick) apart at fps_limit 60, the second
\* emitted after the worker was restarted
C4_Witness ==
    \E w \in WorkerIds :
        /\ worker[w].used
        /\ worker[w].fps_limit = 60
        /\ sink.of[w].frames = <<[ts |-> Epoch, run |-> 1], [ts |-> Epoch + 1667, run |-> 2]>>

\* C5: in one run of the loop the first backoff wait is the initial value
\* (1.5 s); a wait that follows a failed reopen is min(ceiling, 1.6 * the wait
\* before it); a wait that follows a successful reopen is the initial value;
\* every wait lies between the initial value and the ceiling (20 s).
C5_BackoffSequence ==
    \A w \in WorkerIds :
        LET ws == sink.of[w].waits
        IN \A i \in DOMAIN ws :
              /\ reconnect_backoff_sec <= ws[i].b
              /\ ws[i].b <= max_backoff_sec
              /\ ws[i].reopen = "none" => i = 1 /\ ws[i].b = reconnect_backoff_sec
              /\ ws[i].reopen = "ok" => ws[i].b = reconnect_backoff_sec
              /\ ws[i].reopen = "failed" =>
                    i > 1 /\ ws[i].b = Min(max_backoff_sec, (ws[i - 1].b * 16) \div 10)

\* a run whose waits grew to the ceiling over six failed reopens and fell back
\* to the initial value after a successful one
C5_Witness ==
    \E w \in WorkerIds :
        LET ws == sink.of[w].waits
        IN /\ Len(ws) = 8
           /\ ws[6].b = 1572864
           /\ ws[7] = [b |-> max_backoff_sec, reopen |-> "failed"]
           /\ ws[8] = [b |-> reconnect_backoff_sec, reopen |-> "ok"]

\* C6: a run in which the capture open failed three times and then succeeded,
\* with no stop request, has published exactly STARTING, ERROR, DEGRADED,
\* DEGRADED, RUNNING up to its first RUNNING, and slept 1.5, 2.4, 3.84 s.
C6_ThreeFailuresThenRunning ==
    \A w \in WorkerIds :
        LET r == sink.of[w]
        IN (/\ HasRun(r)
            /\ r.fails = 3
            /\ \A i \in DOMAIN r.pub : r.pub[i] # "STOPPED")
              => /\ r.pub = <<"STARTING", "ERROR", "DEGRADED", "DEGRADED", "RUNNING">>
                 /\ [i \in DOMAIN r.waits |-> r.waits[i].b] = <<150000, 240000, 384000>>

\* C7: when start_all_enabled() returns on a Manager that was untouched when
\* the call began, the cameras with a live tracked Worker are exactly the
\* Registry's enabled set, no other camera has a Worker, and snapshot().total
\* is the number of enabled cameras.
C7_StartAllEnabled ==
    \A k \in CallerIds :
        Returned(k, "start_all_enabled") /\ caller[k].fresh =>
            /\ {c \in CameraIds : TrackedAlive(c)} = Enabled
            /\ \A w \in WorkerIds : worker[w].used => worker[w].cid \in Enabled
            /\ SnapshotTotal = Cardinality(Enabled)

\* cam_1 enabled and cam_2 disabled: one live Worker (cam_1's), total = 1
C7_Witness ==
    /\ Returned(1, "start_all_enabled")
    /\ caller[1].fresh
    /\ registry = [c \in CameraIds |-> CameraConfig(c = "cam_1", 5)]
    /\ TrackedAlive("cam_1")
    /\ Cardinality({w \in WorkerIds : worker[w].used}) = 1
    /\ SnapshotTotal = 1

\* C8 (the snapshot): when apply_registry_state() returns, a camera that had a
\* live tracked Worker when the call began and is disabled in the Registry is
\* not counted as running by snapshot(): its cached health is not RUNNING.
C8_DisabledNotRunning ==
    \A k \in CallerIds :
        Returned(k, "apply_registry_state") /\ NoOtherCall(k) =>
            \A c \in caller[k].live0 :
                registry[c] # NoConfig /\ ~registry[c].enabled /\ health[c] # NoEntry =>
                    GetHealth(c).state # "RUNNING"

\* C9: start(camera_id) and restart(camera_id) on an id the Registry does not
\* hold raise the camera-not-found error, having constructed no Worker and
\* issued no lifecycle call.
C9_UnknownIdFails ==
    \A k \in CallerIds :
        (/\ caller[k].pc = "ret"
         /\ caller[k].op \in {"start", "restart"}
         /\ registry[caller[k].arg] = NoConfig)
            => caller[k].err = "not_found" /\ ~caller[k].acted

\* C10: once every call of apply_registry_state(), start(camera_id) and
\* stop(camera_id) has returned, whatever their interleaving, every Worker with
\* a run loop alive is the Worker the map holds under its camera id.
C10_NoOrphanAfterCalls ==
    (\A k \in CallerIds : caller[k].pc \in {"idle", "ret"}) =>
        \A w \in WorkerIds :
            worker[w].used /\ LoopAlive(w) => workers[worker[w].cid] = w

\* the Worker the map holds for the camera of caller k's call (0: none)
TrackedFor(k) == workers[caller[k].arg]

\* C11: when restart(camera_id) has returned without error, from whatever state
\* it was called in (also one whose loop sleeps in a backoff wait longer than
\* the 2 s join timeout), the camera's Worker has its stop signal clear and a
\* run loop executing.
C11_RestartRuns ==
    \A k \in CallerIds :
        Returned(k, "restart") /\ caller[k].err = "" =>
            /\ TrackedFor(k) # 0
            /\ ~worker[TrackedFor(k)].stop_evt
            /\ IsAlive(TrackedFor(k))

\* C12 (the restart): when restart(camera_id) has returned on a camera the
\* Registry holds, the minimum frame interval of the camera's Worker is
\* 1 / (the fps_limit the Registry now holds for the camera).
C12_RestartTakesConfig ==
    \A k \in CallerIds :
        (/\ Returned(k, "restart")
         /\ caller[k].err = ""
         /\ TrackedFor(k) # 0
         /\ registry[caller[k].arg] # NoConfig)
            => worker[TrackedFor(k)].min_frame_interval
                  = MinFrameInterval(registry[caller[k].arg].fps_limit)

\* C13: when restart(camera_id) has returned and the loop it started has not
\* yet read a frame (it is still opening the capture), frames_total and
\* dropped_total are 0, in the Worker's health and in get_health(camera_id).
C13_RestartResetsCounters ==
    \A k \in CallerIds :
        LET w == TrackedFor(k)
        IN (/\ Returned(k, "restart")
            /\ caller[k].err = ""
            /\ w # 0
            /\ IsAlive(w)
            /\ thread[w][worker[w].thread].pc = "open0")
              => /\ worker[w].health.frames_total = 0
                 /\ worker[w].health.dropped_total = 0
                 /\ GetHealth(caller[k].arg).frames_total = 0
                 /\ GetHealth(caller[k].arg).dropped_total = 0

\* C14: in every step, of a loop or of a start, stop or restart call, the
\* frames_total and the dropped_total of a Worker instance that exists before
\* and after the step each stay as they are or grow by 1.
C14_CountersMonotone ==
    [][\A w \in WorkerIds :
          worker[w].used /\ worker'[w].used =>
              /\ worker'[w].health.frames_total - worker[w].health.frames_total \in {0, 1}
              /\ worker'[w].health.dropped_total - worker[w].health.dropped_total \in {0, 1}]_vars

\* a Worker that emitted a frame and dropped a read, and runs again after a
\* restart with both counters kept
C14_Witness ==
    \E w \in WorkerIds :
        /\ IsAlive(w)
        /\ sink.of[w].run = 2
        /\ worker[w].health.frames_total = 1
        /\ worker[w].health.dropped_total = 1

\* C15: a loop step that emits a frame within the fps window and whose frame
\* callback returns invokes no health callback, so it leaves what get_health()
\* returns for every camera as it was.
C15_PublishedByValue ==
    [][\A w \in WorkerIds, s \in ThreadIds :
          (/\ LoopReadEmit(w, s, Epoch, TRUE)
           /\ Epoch - worker[w].fps_window_start < Second)
             => \A c \in CameraIds : GetHealth(c)' = GetHealth(c)]_vars

\* the places of a caller inside CameraWorker.start() and CameraWorker.stop()
\* (restart() is the one followed by the other)
InLifecycle == {"wstart_chk", "wstart_go", "wstop_set", "wstop_join"}

\* the step writes the health map's entry of camera c (not: the runtime frees
\* the Worker whose CameraHealth the entry holds)
CacheWritten(c) ==
    /\ health'[c] # health[c]
    /\ ~(health[c].ref # 0
           /\ health'[c] = [ref |-> 0, val |-> worker[health[c].ref].health])

\* C16: no thread is inside CameraWorker.start(), stop() or restart() while it
\* holds the Manager lock; a step that writes the worker map is taken by the
\* thread that holds the lock; and a step that writes the health map is taken
\* by the thread that holds the lock or, the lock being free, by the publish
\* that takes it for the write.
C16_LockDiscipline ==
    /\ [](\A k \in CallerIds : caller[k].lock => caller[k].pc \notin InLifecycle)
    /\ [][/\ workers' # workers =>
                \E k \in CallerIds : caller[k].lock /\ caller'[k] # caller[k]
          /\ (\E c \in CameraIds : CacheWritten(c)) =>
                \A k \in CallerIds : caller[k].lock => caller'[k] # caller[k]]_vars

\* stop(camera_id) holds the lock again for the pop, after the worker.stop()
\* it issued without the lock has ended the run loop and published STOPPED
C16_Witness ==
    \E k \in CallerIds, w \in WorkerIds :
        /\ caller[k].lock
        /\ caller[k].pc = "stop_pop"
        /\ caller[k].w = w
        /\ workers[caller[k].cid] = w
        /\ ~LoopAlive(w)
        /\ GetHealth(caller[k].cid).state = "STOPPED"

\* C17: a run loop ends only with the stop signal set, whatever the callbacks
\* raise; and the step in which the frame callback raised took the loop to its
\* next iteration with the error recorded in last_error and published, the
\* frame counted, state RUNNING, and capture handle, dropped_total and backoff
\* as they were.
C17_CallbackErrorsAbsorbed ==
    [][\A w \in WorkerIds, s \in ThreadIds, c \in CameraIds :
          worker[w].cid = c =>
             /\ (ThreadAlive(w, s) /\ ~ThreadAlive(w, s)') => worker[w].stop_evt
             /\ (thread[w][s].pc = "read" /\ thread'[w][s] # thread[w][s]
                   /\ faults'.cb_fails < faults.cb_fails) =>
                   /\ thread'[w][s] = [thread[w][s] EXCEPT !.pc = "top"]
                   /\ worker'[w].health.last_error = "on_frame"
                   /\ health'[c].ref = w
                   /\ GetHealth(c)' = worker'[w].health
                   /\ worker'[w].health.state = "RUNNING"
                   /\ worker'[w].health.frames_total = worker[w].health.frames_total + 1
                   /\ worker'[w].health.dropped_total = worker[w].health.dropped_total
                   /\ worker'[w].cap = worker[w].cap
                   /\ worker'[w].stop_evt = worker[w].stop_evt]_vars

\* a loop that goes on reading after both frame callbacks raised, with a
\* health callback that raises at every publish
C17_Witness ==
    \E w \in WorkerIds :
        /\ faults.hc_raises
        /\ faults.cb_fails = 0
        /\ IsAlive(w)
        /\ thread[w][worker[w].thread].pc = "read"
        /\ ~worker[w].stop_evt
        /\ worker[w].health.last_error = "on_frame"
        /\ worker[w].health.frames_total = 2

\* the threads of worker w executing its run loop
LiveThreads(w) == {s \in ThreadIds : ThreadAlive(w, s)}

\* C18: CameraWorker.start() on a Worker with a run loop alive returns with the
\* Worker, its threads, the health cache and the sinks as they were; on any
\* other Worker it goes on, and then clears the stop signal, sets STARTING,
\* has published it when it returns, and has added exactly one run loop.
C18_StartIdempotent ==
    [][\A k \in CallerIds, w \in WorkerIds, c \in CameraIds :
          (caller[k].w = w /\ worker[w].cid = c /\ caller'[k] # caller[k]) =>
             /\ caller[k].pc = "wstart_chk" =>
                    /\ UNCHANGED <<worker, thread, health, sink>>
                    /\ caller'[k].pc = "wstart_go" <=> ~LoopAlive(w)
             /\ caller[k].pc = "wstart_go" =>
                    /\ ~worker'[w].stop_evt
                    /\ worker'[w].health.state = "STARTING"
                    /\ GetHealth(c)'.state = "STARTING"
                    /\ Cardinality(LiveThreads(w)') = Cardinality(LiveThreads(w)) + 1
                    /\ LiveThreads(w)' = {worker'[w].thread}
                    /\ caller'[k].pc \notin {"wstart_chk", "wstart_go"}]_vars

\* restart() has returned after its join timed out: its start() found the loop
\* alive and left the Worker as stop() left it, STOPPED with the signal set
C18_Witness ==
    \E k \in CallerIds :
        /\ Returned(k, "restart")
        /\ TrackedFor(k) # 0
        /\ IsAlive(TrackedFor(k))
        /\ worker[TrackedFor(k)].stop_evt
        /\ worker[TrackedFor(k)].health.state = "STOPPED"
        /\ sink.of[TrackedFor(k)].run = 1

\* C19 (the exit): a run loop ends only with the stop signal set, and in the
\* step in which it ends it has released the capture handle, set state STOPPED
\* and published it.
C19_LoopExitsStopped ==
    [][\A w \in WorkerIds, s \in ThreadIds, c \in CameraIds :
          (worker[w].cid = c /\ ThreadAlive(w, s) /\ ~ThreadAlive(w, s)') =>
              /\ worker[w].stop_evt
              /\ ~worker'[w].cap
              /\ worker'[w].health.state = "STOPPED"
              /\ GetHealth(c)'.state = "STOPPED"]_vars

\* C20: when every call has returned, the only run loop alive for a camera is
\* that of its tracked Worker (a stopped or superseded Worker publishes no
\* more) and that loop reads frames from its open capture, the cached health
\* of the camera is the health of the tracked Worker.
C20_CacheFollowsTracked ==
    (\A k \in CallerIds : caller[k].pc \in {"idle", "ret"}) =>
        \A c \in CameraIds :
            (/\ workers[c] # 0
             /\ LoopsOf(c) = {workers[c]}
             /\ worker[workers[c]].cap
             /\ health[c] # NoEntry)
                => GetHealth(c) = worker[workers[c]].health

\* C21: when apply_registry_state() has returned, the health cache holds no
\* entry for a camera id the Registry does not know, and none appears for as
\* long as the id stays unknown.
C21_PrunedStaysPruned ==
    \A k \in CallerIds :
        Returned(k, "apply_registry_state") =>
            \A c \in CameraIds : registry[c] = NoConfig => health[c] = NoEntry

\* C22: a step of the run loop of one camera's Worker (an open that fails or
\* succeeds, a failed read, a backoff sleep, a frame with a callback that
\* raises or not) leaves the worker map as it was, and leaves the Worker, the
\* threads and the cached health of every other camera as they were.
C22_LoopStepsIsolated ==
    [][\A w \in WorkerIds, s \in ThreadIds :
        (worker[w].used /\ thread'[w][s] # thread[w][s] /\ caller' = caller) =>
            /\ workers' = workers
            /\ \A v \in WorkerIds :
                  worker[v].cid # worker[w].cid =>
                      worker'[v] = worker[v] /\ thread'[v] = thread[v]
            /\ \A c \in CameraIds \ {worker[w].cid} :
                  health'[c] = health[c] /\ GetHealth(c)' = GetHealth(c)]_vars

\* cam_1 has failed to open at least twice in a row and is in state ERROR,
\* while cam_2 is tracked, RUNNING and has delivered a frame
C22_Witness ==
    \E w \in WorkerIds, v \in WorkerIds :
        /\ workers["cam_1"] = w /\ workers["cam_2"] = v
        /\ worker[w].health.state = "ERROR"
        /\ \E s \in ThreadIds : ThreadAlive(w, s) /\ thread[w][s].backoff > reconnect_backoff_sec
        /\ IsAlive(v)
        /\ GetHealth("cam_2").state = "RUNNING"
        /\ worker[v].health.frames_total = 1

\* C23: a read that fails on an open capture adds exactly 1 to dropped_total,
\* leaves frames_total as it was, sets last_error and state DEGRADED, publishes
\* that health, releases the capture handle and ends the iteration. A loop at
\* its while test with no capture and no stop signal takes the reconnect
\* branch, without a frame. A loop comes to a read only from the while test
\* with the capture open, a frame is counted only by a loop at its read, and a
\* capture becomes open only by an open that succeeded: no frame callback
\* runs between the failed read and a successful reopen.
C23_FailedRead ==
    [][\A w \in WorkerIds, s \in ThreadIds, c \in CameraIds :
        worker[w].cid = c =>
          /\ (LoopReadFail(w, s) /\ worker[w].cap) =>
                /\ worker'[w].health.dropped_total = worker[w].health.dropped_total + 1
                /\ worker'[w].health.frames_total = worker[w].health.frames_total
                /\ worker'[w].health.last_error # ""
                /\ worker'[w].health.state = "DEGRADED"
                /\ health'[c].ref = w /\ GetHealth(c)' = worker'[w].health
                /\ ~worker'[w].cap
                /\ thread'[w][s].pc = "top"
                /\ sink'.of[w].frames = sink.of[w].frames
          /\ (/\ thread[w][s].pc = "top" /\ thread'[w][s] # thread[w][s]
              /\ ~worker[w].cap /\ ~worker[w].stop_evt) =>
                /\ thread'[w][s].pc = "sleep"
                /\ worker'[w].health.frames_total = worker[w].health.frames_total
          /\ (thread[w][s].pc # "read" /\ thread'[w][s].pc = "read") =>
                thread[w][s].pc = "top" /\ worker[w].cap
          /\ worker'[w].health.frames_total > worker[w].health.frames_total =>
                \E t \in ThreadIds : thread[w][t].pc = "read" /\ thread'[w][t].pc # "read"
          /\ (worker[w].used /\ ~worker[w].cap /\ worker'[w].cap) =>
                \E t \in ThreadIds :
                    /\ thread[w][t].pc \in {"open0", "reopen"}
                    /\ thread'[w][t].pc = "top"
                    /\ worker'[w].health.state = "RUNNING"]_vars

\* a read has failed and the loop, not stopped, waits in the reconnect branch
C23_Witness ==
    \E w \in WorkerIds, s \in ThreadIds :
        /\ thread[w][s].pc = "sleep"
        /\ worker[w].health.dropped_total = 1
        /\ worker[w].health.last_error = "read"
        /\ worker[w].health.state = "DEGRADED"
        /\ ~worker[w].cap /\ ~worker[w].stop_evt
        /\ GetHealth(worker[w].cid) = worker[w].health

\* C24: when a read returns a frame at a time less than 1/fps_limit after the
\* last emitted frame, the iteration ends with the Worker (counters, last-emit
\* timestamp, health state, fps window, last_error), the health cache, the
\* backoff and the frames the frame sink received all as they were.
C24_LimitedFrameDiscarded ==
    [][\A w \in WorkerIds, s \in ThreadIds, now \in FrameTimes :
        (/\ \/ LoopReadLimited(w, s, now)
            \/ \E cb_ok \in BOOLEAN : LoopReadEmit(w, s, now, cb_ok)
         /\ (now - worker[w].last_emit_ts) * worker[w].fps_limit < Second) =>
            /\ worker' = worker
            /\ health' = health
            /\ sink' = sink
            /\ thread'[w][s] = [thread[w][s] EXCEPT !.pc = "top"]]_vars

\* a loop at its read, not stopped, at fps_limit 1 with a frame emitted at the
\* tick before Epoch + 1 s: whatever FrameTimes the next frame carries, it
\* arrives less than 1 s after
C24_Witness ==
    \E w \in WorkerIds, s \in ThreadIds :
        /\ thread[w][s].pc = "read"
        /\ worker[w].cap /\ ~worker[w].stop_evt
        /\ worker[w].fps_limit = 1
        /\ worker[w].last_emit_ts = Epoch + Second - 1
        /\ worker[w].health.frames_total = 1
        /\ Len(sink.of[w].frames) = 1

\* C25: a Worker that was started and whose stop signal is clear has its run
\* loop alive, however many opens and reads have failed; a run loop ends only
\* in a state with the stop signal set; and a loop that slept its backoff
\* goes on to try the open again.
C25_ReconnectUnbounded ==
    /\ [](\A w \in WorkerIds :
            worker[w].used /\ worker[w].thread # 0 /\ ~worker[w].stop_evt => IsAlive(w))
    /\ [][\A w \in WorkerIds, s \in ThreadIds :
            /\ (ThreadAlive(w, s) /\ thread'[w][s].pc \in DeadPc) => worker[w].stop_evt
            /\ (thread[w][s].pc = "sleep" /\ thread'[w][s] # thread[w][s]) =>
                  thread'[w][s].pc = "reopen"]_vars

\* the first run of a loop, never stopped, in which the open failed
\* MaxOpenFails times in a row: the loop waits for the next attempt
C25_Witness ==
    \E w \in WorkerIds, s \in ThreadIds :
        /\ sink.of[w].run = 1
        /\ faults.open_fails = 0
        /\ worker[w].health.frames_total = 0 /\ worker[w].health.dropped_total = 0
        /\ ~worker[w].stop_evt
        /\ thread[w][s].pc = "sleep"
        /\ thread[w][s].backoff = max_backoff_sec
        /\ worker[w].health.state = "DEGRADED"

\* the run loops executing for camera c, of Workers in the worker map or not
RunLoops(c) ==
    {ws \in WorkerIds \X ThreadIds :
        worker[ws[1]].used /\ worker[ws[1]].cid = c /\ ThreadAlive(ws[1], ws[2])}

\* C26: at most one run loop is alive per camera id, counting the loops of
\* Workers that are no longer in the worker map.
C26_OneLoopPerCamera ==
    \A c \in CameraIds : Cardinality(RunLoops(c)) <= 1

\* C27: a Worker that was started and whose health state is STOPPED (set by
\* stop() before it returns, or by the loop as it ends) has no run loop that
\* can still open the capture or emit a frame: each of its threads has ended
\* or is at the while test with the stop signal set.
C27_StoppedIsQuiet ==
    \A w \in WorkerIds :
        (worker[w].used /\ worker[w].thread # 0 /\ worker[w].health.state = "STOPPED") =>
            \A s \in ThreadIds :
                \/ ~ThreadAlive(w, s)
                \/ thread[w][s].pc = "top" /\ worker[w].stop_evt

\* C28: a Worker with no run loop alive (never started, or its loops have
\* ended) holds no open capture handle, however the handle release of stop()
\* falls among the loop's open, read and exit steps. (A Worker has one handle
\* reference, self._cap, here the flag cap: it holds at most one handle.)
C28_NoHandleLeak ==
    \A w \in WorkerIds : worker[w].used /\ ~LoopAlive(w) => ~worker[w].cap

\* the loop of a Worker has ended after an open that returned a handle when
\* stop() had already released the capture, given up the join and published
\* STOPPED; the Worker holds no handle
C28_Witness ==
    \E w \in WorkerIds :
        /\ worker[w].used /\ ~LoopAlive(w) /\ ~worker[w].cap
        /\ worker[w].health.state = "STOPPED"
        /\ sink.of[w].pub = <<"STARTING", "STOPPED", "RUNNING">>

====
